---- MODULE Spec2Model ----
(***************************************************************************)
(* The on-prem smoke test, tests/main.py, as a state machine.  The script  *)
(* is one thread of control running its top-level statements in order;     *)
(* every statement that talks to the outside world (a subprocess, the      *)
(* server's stdout, the browser) gets its outcome from the environment.    *)
(* An uncaught exception ends the run where it is raised: there is no      *)
(* try/finally anywhere in the script.                                     *)
(***************************************************************************)
EXTENDS Integers, Sequences, FiniteSets, TLC

\* ------------------------------------------------------------------ bounds

\* Lines the server may print before its stdout closes.
MaxLines == 2
\* Polls of one WebDriverWait before it times out.
MaxPolls == 1
\* The environment refuses the first refuseN connections, refuseN \in 0..MaxRefuse.
MaxRefuse == 101

\* --------------------------------------------------------------- constants

\* `if retries > 100` in open_browser.
RetryBudget == 100

\* ------------------------------------------------------------------- paths
\* A path is the sequence of its components.

tmpdir == <<"tmp">>
testdir == tmpdir \o <<"pernosco-submit-test">>
tmpdir_alias == tmpdir \o <<"alias">>
testdir_alias == tmpdir_alias \o <<"pernosco-submit-test">>
storage_dir == tmpdir \o <<"storage">>

\* "%s/main-%d" % (tmpdir, next_trace_id)
\* Off by one: the name built from the id after the increment.
TraceDirNameNext(id) == tmpdir \o <<"main-" \o ToString(id + 1)>>

TraceDirName(id) == tmpdir \o <<"main-" \o ToString(id)>>

\* trace_dir = None, url = None: no path and no token is empty.
None == <<>>

\* ----------------------------------------------------------------- strings
\* A line of text is the sequence of its characters.

IsSpace(c) == c \in {" ", "\n", "\t"}

\* str.split() without arguments: the maximal runs of non-whitespace.
RECURSIVE SplitFrom(_, _, _, _)
SplitFrom(s, i, cur, acc) ==
    IF i > Len(s)
    THEN IF cur = <<>> THEN acc ELSE Append(acc, cur)
    ELSE IF IsSpace(s[i])
         THEN SplitFrom(s, i + 1, <<>>, IF cur = <<>> THEN acc ELSE Append(acc, cur))
         ELSE SplitFrom(s, i + 1, Append(cur, s[i]), acc)

Split(s) == SplitFrom(s, 1, <<>>, <<>>)

\* str.startswith
StartsWith(s, p) == Len(s) >= Len(p) /\ SubSeq(s, 1, Len(p)) = p

\* str.strip(): drop leading and trailing whitespace.
RECURSIVE LStrip(_)
LStrip(s) == IF s # <<>> /\ IsSpace(Head(s)) THEN LStrip(Tail(s)) ELSE s
RECURSIVE RStrip(_)
RStrip(s) ==
    IF s # <<>> /\ IsSpace(s[Len(s)]) THEN RStrip(SubSeq(s, 1, Len(s) - 1)) ELSE s
Strip(s) == RStrip(LStrip(s))

\* The lines a server may print (each ends with its newline).
LineBlank == <<"\n">>
LineSpaces == <<" ", "\n">>
LineNoUrl == <<"u", "p", "\n">>
LineUrlA == <<"a", "t", " ", "h", "t", "t", "p", ":", "a", "\n">>
LineUrlB == <<"h", "t", "t", "p", ":", "b", " ", "\n">>
LineHttps == <<"h", "t", "t", "p", "s", ":", "c", "\n">>
LineUrlNotLast == <<"h", "t", "t", "p", ":", "a", " ", "u", "p", "\n">>
ServerLines ==
    {LineBlank, LineSpaces, LineNoUrl, LineUrlA, LineUrlB, LineHttps, LineUrlNotLast}

\* -------------------------------------------------------------- JS values
\* What execute_script returns: a tagged sequence, so that a boolean and a
\* string are never equal, as in Python.

JsBool(b) == <<"bool", IF b THEN "true" ELSE "false">>
JsStr(chunks) == <<"str">> \o chunks

HelloKitty == JsStr(<<"Hello", "Kitty">>)
\* The values the textarea script may return.
TextValues ==
    {JsStr(<<>>), JsStr(<<"Hello">>), JsStr(<<"Kitty">>), HelloKitty,
     JsStr(<<"Hello", "Kitty", "X">>)}
BoolValues == {JsBool(TRUE), JsBool(FALSE)}

\* One evaluation of a script: it raises JavascriptException or returns val.
ScriptOutcomes(expected) ==
    [err : BOOLEAN, val : IF expected[1] = "bool" THEN BoolValues ELSE TextValues]

\* script_succeeds comparing with startswith instead of ==.
ScriptSucceedsPrefix(r, expected) == ~r.err /\ StartsWith(r.val, expected)

\* script_succeeds without the try/except returning False: an evaluation
\* error is not told apart from success.
ScriptSucceedsOnError(r, expected) == r.err \/ r.val = expected

\* script_succeeds.__call__
ScriptSucceeds(r, expected) == ~r.err /\ r.val = expected

\* ------------------------------------------------------------- the script
\* The top-level statements of tests/main.py from line 140 on, in order.
\* op is the kind of statement, line its first source line, ctx the document
\* a selector belongs to, expect the value a script wait compares with.

St(name, op, line) ==
    [name |-> name, op |-> op, line |-> line, ctx |-> "top", expect |-> None]
Wt(name, line, ctx) ==
    [name |-> name, op |-> "wait_text", line |-> line, ctx |-> ctx, expect |-> None]
Ws(name, line, expect) ==
    [name |-> name, op |-> "wait_script", line |-> line, ctx |-> "top", expect |-> expect]

Program ==
    << St("git_clone", "check_call", 141),
       St("git_checkout", "check_call", 142),
       St("mkdir_alias", "check_call", 143),
       St("mount", "mount", 145),
       St("build", "check_call", 146),
       St("record", "record", 147),
       St("pull", "pull", 149),
       St("build_check_trace", "check_call", 152),
       St("mkdir_storage", "os_mkdir", 154),
       St("start_server_1", "start_server", 157),
       St("create_driver", "create_driver", 159),
       St("open_browser_1", "open_browser", 160),
       Wt("wait_title_exit_c", 162, "top"),
       St("find_source_frame", "find", 165),
       St("window_handles", "ui_act", 166),
       St("switch_frame_1", "switch_frame", 167),
       Wt("wait_monaco_exit", 168, "frame"),
       St("switch_window_1", "switch_window", 171),
       St("find_search_input", "find", 173),
       St("focus_search_1", "ui_act", 176),
       St("type_helper_function", "ui_act", 177),
       Wt("wait_dropdown_helper", 178, "top"),
       St("return_1", "ui_act", 181),
       Wt("wait_execution", 183, "top"),
       St("find_item", "find", 186),
       St("click_item", "ui_act", 187),
       Wt("wait_title_file_c", 188, "top"),
       St("switch_frame_2", "switch_frame", 191),
       Wt("wait_monaco_helper", 192, "frame"),
       St("switch_window_2", "switch_window", 195),
       St("focus_search_2", "ui_act", 198),
       St("type_notebook", "ui_act", 199),
       Wt("wait_dropdown_notebook", 200, "top"),
       St("return_2", "ui_act", 203),
       St("find_first_note", "find", 205),
       Ws("wait_focus", 206, JsBool(TRUE)),
       St("click_first_note", "ui_act", 209),
       Ws("wait_textarea_empty", 210, JsStr(<<>>)),
       St("type_hello_kitty", "ui_act", 214),
       Ws("wait_textarea_typed", 217, HelloKitty),
       St("sleep", "sleep", 221),
       St("get_about_blank", "ui_act", 223),
       St("kill_server_1", "kill", 225),
       St("wait_server_1", "wait", 226),
       St("start_server_2", "start_server", 228),
       St("open_browser_2", "open_browser", 229),
       Ws("wait_persisted", 230, HelloKitty),
       St("driver_quit", "quit", 234),
       St("kill_server_2", "kill", 235),
       St("wait_server_2", "wait", 236),
       St("docker_ps", "docker_ps", 239),
       St("assert_no_containers", "assert_docker", 240),
       St("build_copy_sources", "check_call", 244),
       St("unzip_list", "unzip", 246),
       St("assert_zip", "assert_zip", 247),
       St("umount", "umount", 249),
       St("print_pass", "print_pass", 251) >>

NSteps == Len(Program)
StepNames == {Program[i].name : i \in 1..NSteps}

\* The prefix start_server looks for: last_word.startswith("http:").
HttpPrefix == <<"h", "t", "t", "p", ":">>

\* Stopping the server with a forced kill.
StopSignalKill == "SIGKILL"

\* os.kill(server.pid, signal.SIGINT)
StopSignal == "SIGINT"

\* check_call raising on the wrong status.
CheckCallRaisesOnZero(exit) == exit = 0

\* subprocess.call instead of check_call: the exit status is ignored.
CheckCallIgnoresExit(exit) == FALSE

\* subprocess.check_call raises CalledProcessError on a non-zero exit status.
CheckCallRaises(exit) == exit # 0

\* Capturing the output without checking the exit status.
CheckOutputIgnoresExit(exit) == FALSE

\* subprocess.check_output raises CalledProcessError on a non-zero exit status.
CheckOutputRaises(exit) == exit # 0

\* The budget check off by one, either way.
TooManyRetriesEarly(r) == r >= RetryBudget
TooManyRetriesLate(r) == r > RetryBudget + 1

\* open_browser: `if retries > 100`.
TooManyRetries(r) == r > RetryBudget

\* The container check testing for a missing output instead of an empty one.
ContainersLeftNever(out) == FALSE

\* if len(output) > 0
ContainersLeft(out) == Len(out) > 0

\* What `docker ps -aq` may print.
DockerOutputs == {<<>>, <<"\n">>, <<"c", "1", "\n">>}

\* The entries `unzip -Z1` may list for sources.zip.
WorkSource == tmpdir \o <<"pernosco-submit-test", "out", "message.h">>
AliasSource == tmpdir_alias \o <<"pernosco-submit-test", "out", "message.h">>
OtherSource == <<"usr", "include", "stdio.h">>
ZipEntries == {WorkSource, AliasSource, OtherSource}

\* Asserting the path under the alias root instead.
ExpectedSourceAlias == tmpdir_alias \o <<"pernosco-submit-test", "out", "message.h">>

\* The path line 247 asserts: "%s/pernosco-submit-test/out/message.h" % tmpdir.
ExpectedSource == tmpdir \o <<"pernosco-submit-test", "out", "message.h">>

\* ------------------------------------------------------------------ state

VARIABLES
    args,           \* the parsed command line: [no_pull]
    pc,             \* index in Program of the statement being run
    sub,            \* "stmt": about to run it; "loop": inside its function's loop;
                    \* "break": at the break of open_browser
    status,         \* "running", "aborted" (uncaught exception), "exited"
    error,          \* the uncaught exception
    done,           \* names of the statements that completed successfully
    stderr,         \* the markers printed to sys.stderr
    trace_dir, next_trace_id,
    mounted,        \* testdir is bind-mounted on testdir_alias
    url, server,    \* the globals of start_server; server indexes servers, 0 = None
    servers,        \* every process Popen started: its arguments and its life
    line, linesRead,\* start_server's loop variable; lines read from this server
    driver,         \* "none", "open", "quit"
    frame,          \* the browser's active document: "top" or "frame"
    retries,        \* open_browser's local
    refuseN,        \* the environment refuses the first refuseN driver.get(url)
    getCalls,       \* driver.get(url) calls made by this open_browser
    nav,            \* last open_browser: "none", "running", "returned", "raised"
    polls,          \* failed polls of the current WebDriverWait
    observed,       \* the last outcome of execute_script in a script wait
    output,         \* stripped output of docker ps
    zip_files,      \* listing of sources.zip
    calls,          \* the synchronous commands run so far: stage, argv, exit status
    upd             \* the state of .update.py (see below)

ctlVars == <<pc, sub, status, error, done>>
traceVars == <<trace_dir, next_trace_id>>
srvVars == <<url, server, servers, line, linesRead>>
navVars == <<retries, refuseN, getCalls, nav>>
uiVars == <<driver, frame, polls, observed>>
fsVars == <<mounted, output, zip_files>>
vars == <<args, ctlVars, stderr, traceVars, srvVars, navVars, uiVars, fsVars, calls, upd>>

NoOutcome == [err |-> TRUE, val |-> None]

\* .update.py is not what is running.
UpdNotRunning == [pc |-> "none"]

\* The state when line 140 is reached.
InitMain ==
    /\ args \in [no_pull : BOOLEAN]
    /\ pc = 1
    /\ sub = "stmt"
    /\ status = "running"
    /\ error = "none"
    /\ done = {}
    /\ stderr = <<"Working directory">>
    /\ trace_dir = None
    /\ next_trace_id = 0
    /\ mounted = FALSE
    /\ url = None
    /\ server = 0
    /\ servers = <<>>
    /\ line = None
    /\ linesRead = 0
    /\ driver = "none"
    /\ frame = "top"
    /\ retries = 0
    /\ refuseN = 0
    /\ getCalls = 0
    /\ nav = "none"
    /\ polls = 0
    /\ observed = NoOutcome
    /\ output = <<>>
    /\ zip_files = {}
    /\ calls = <<>>

Init == InitMain /\ upd = UpdNotRunning

Cur == Program[pc]
At(op) == status = "running" /\ sub = "stmt" /\ Cur.op = op
InLoop(op) == status = "running" /\ sub = "loop" /\ Cur.op = op

\* Control reaches the next statement; the statement counts as completed
\* successfully when ok.
FallThrough(ok) ==
    /\ pc' = pc + 1
    /\ sub' = "stmt"
    /\ done' = IF ok THEN done \cup {Cur.name} ELSE done
    /\ UNCHANGED <<status, error>>

\* The statement completes and the next one is reached.
Complete == FallThrough(TRUE)

\* An exception nothing catches: the interpreter exits where it is raised.
Raise(e) ==
    /\ status' = "aborted"
    /\ error' = e
    /\ UNCHANGED <<pc, sub, done>>

\* pernosco_cmd, with --no-pull appended when args.no_pull.
\* pernosco_cmd without lines 123-124: the flag is never appended.
PernoscoCmdNoFlag == <<"./pernosco", "-x", "--log", "info:/proc/self/fd/2">>

PernoscoCmd ==
    <<"./pernosco", "-x", "--log", "info:/proc/self/fd/2">>
        \o (IF args.no_pull THEN <<"--no-pull">> ELSE <<>>)

\* The argv of each synchronous command, by the statement that runs it.
CommandLine(name) ==
    CASE name = "git_clone" -> <<"git", "clone", "https://github.com/Pernosco/pernosco-submit-test">>
      [] name = "git_checkout" -> <<"git", "checkout", "-q", "84861f84a7462c2b4e04b7b41f7f83616c83c8dc">>
      [] name = "mkdir_alias" -> <<"mkdir", "-p", "testdir_alias">>
      [] name = "mount" -> <<"sudo", "mount", "--bind", "testdir", "testdir_alias">>
      [] name = "build" -> <<"./build.sh">>
      [] name = "record" -> <<"rr", "record", "testdir/out/main">>
      [] name = "pull" -> <<"./pernosco", "pull">>
      [] name = "build_check_trace" -> PernoscoCmd \o <<"--user", "1200", "build", "--check-trace">>
      [] name = "docker_ps" -> <<"docker", "ps", "-aq">>
      [] name = "build_copy_sources" ->
           PernoscoCmd \o <<"--user", "1200", "build", "--copy-sources", "/">>
      [] name = "unzip_list" -> <<"unzip", "-Z1", "trace_dir/files.user/sources.zip">>
      [] name = "umount" -> <<"sudo", "umount", "testdir_alias">>

\* The command of the current statement ran and ended with status exit.
Called(exit) ==
    calls' = Append(calls, [name |-> Cur.name, argv |-> CommandLine(Cur.name), exit |-> exit])

\* subprocess.check_call(...) with no other effect on the model's state.
CheckCall ==
    /\ At("check_call")
    /\ \E exit \in {0, 1} :
         /\ Called(exit)
         /\ IF CheckCallRaises(exit)
            THEN Raise("CalledProcessError")
            ELSE FallThrough(exit = 0)
    /\ UNCHANGED <<args, upd, stderr, traceVars, srvVars, navVars, uiVars, fsVars>>

\* sudo mount --bind testdir testdir_alias
Mount ==
    /\ At("mount")
    /\ \E exit \in {0, 1} :
         /\ Called(exit)
         /\ IF CheckCallRaises(exit)
            THEN Raise("CalledProcessError") /\ UNCHANGED mounted
            ELSE FallThrough(exit = 0) /\ mounted' = (exit = 0 \/ mounted)
    /\ UNCHANGED <<args, upd, stderr, traceVars, srvVars, navVars, uiVars, output, zip_files>>

\* sudo umount testdir_alias
Umount ==
    /\ At("umount")
    /\ \E exit \in {0, 1} :
         /\ Called(exit)
         /\ IF CheckCallRaises(exit)
            THEN Raise("CalledProcessError") /\ UNCHANGED mounted
            ELSE FallThrough(exit = 0) /\ mounted' = (exit # 0 /\ mounted)
    /\ UNCHANGED <<args, upd, stderr, traceVars, srvVars, navVars, uiVars, output, zip_files>>

\* record(): the trace directory is predicted from the counter.
RecordBody(exit) ==
    IF CheckCallRaises(exit)
    THEN UNCHANGED traceVars
    ELSE /\ trace_dir' = TraceDirName(next_trace_id)
         /\ next_trace_id' = next_trace_id + 1

Record ==
    /\ At("record")
    /\ \E exit \in {0, 1} :
         /\ Called(exit)
         /\ IF CheckCallRaises(exit)
            THEN Raise("CalledProcessError")
            ELSE FallThrough(exit = 0)
         /\ RecordBody(exit)
    /\ UNCHANGED <<args, upd, stderr, srvVars, navVars, uiVars, fsVars>>

\* if not args.no_pull: subprocess.check_call(['./pernosco', 'pull'])
Pull ==
    /\ At("pull")
    /\ ~args.no_pull
    /\ \E exit \in {0, 1} :
         /\ Called(exit)
         /\ IF CheckCallRaises(exit)
            THEN Raise("CalledProcessError")
            ELSE FallThrough(exit = 0)
    /\ UNCHANGED <<args, upd, stderr, traceVars, srvVars, navVars, uiVars, fsVars>>

SkipPull ==
    /\ At("pull")
    /\ args.no_pull
    /\ pc' = pc + 1
    /\ UNCHANGED <<args, upd, calls, sub, status, error, done, stderr, traceVars, srvVars,
                   navVars, uiVars, fsVars>>

\* os.mkdir(storage_dir) raises when the directory exists or cannot be made.
MkdirStorage ==
    /\ At("os_mkdir")
    /\ \/ Complete
       \/ Raise("OSError")
    /\ UNCHANGED <<args, upd, calls, stderr, traceVars, srvVars, navVars, uiVars, fsVars>>

\* ------------------------------------------------------------ start_server

\* The arguments of the serve command: pernosco_cmd, --storage, --sources
\* from=to, trace_dir.
ServeArgs ==
    [cmd |-> PernoscoCmd, storage |-> storage_dir, sources |-> <<tmpdir, tmpdir_alias>>,
     trace |-> trace_dir]

\* server = subprocess.Popen(...); url = None
\* start_server without its `url = None`: the previous value stays.
UrlKept(u) == u

\* url = None (line 132), whatever url was.
UrlReset(u) == None

Popen ==
    /\ At("start_server")
    /\ \/ /\ servers' = Append(servers,
                [args |-> ServeArgs, state |-> "running", signals |-> <<>>, waits |-> 0])
          /\ server' = Len(servers) + 1
          /\ url' = UrlReset(url)
          /\ line' = None
          /\ linesRead' = 0
          /\ sub' = "loop"
          /\ UNCHANGED <<pc, status, error, done>>
       \/ Raise("OSError") /\ UNCHANGED srvVars
    /\ UNCHANGED <<args, upd, calls, stderr, traceVars, navVars, uiVars, fsVars>>

\* One iteration of `for line in server.stdout`: the server printed l.
ServerLine ==
    /\ InLoop("start_server")
    /\ linesRead < MaxLines
    /\ \E l \in ServerLines :
         LET words == Split(l) IN
         /\ line' = l
         /\ linesRead' = linesRead + 1
         /\ IF words = <<>>
            THEN Raise("IndexError") /\ UNCHANGED url
            ELSE LET last_word == words[Len(words)] IN
                 IF StartsWith(last_word, HttpPrefix)
                 THEN url' = last_word /\ Complete
                 ELSE UNCHANGED <<url, ctlVars>>
    /\ UNCHANGED <<args, upd, calls, stderr, traceVars, server, servers, navVars, uiVars, fsVars>>

\* The server's stdout closes (the process died or closed it): the loop ends
\* and start_server returns with url still None.
StdoutEof ==
    /\ InLoop("start_server")
    /\ \E st \in {"running", "exited"} :
         servers' = [servers EXCEPT ![server].state = st]
    /\ Complete
    /\ UNCHANGED <<args, upd, calls, stderr, traceVars, url, server, line, linesRead, navVars,
                   uiVars, fsVars>>

\* os.kill(server.pid, signal.SIGINT): a process not yet waited for can
\* always be signalled.
Kill ==
    /\ At("kill")
    /\ servers' = [servers EXCEPT ![server].signals = Append(@, StopSignal)]
    /\ Complete
    /\ UNCHANGED <<args, upd, calls, stderr, traceVars, url, server, line, linesRead, navVars,
                   uiVars, fsVars>>

\* server.wait() returns once the process has exited.
Wait ==
    /\ At("wait")
    /\ servers[server].state = "exited" \/ servers[server].signals # <<>>
    /\ servers' = [servers EXCEPT ![server].state = "exited", ![server].waits = @ + 1]
    /\ Complete
    /\ UNCHANGED <<args, upd, calls, stderr, traceVars, url, server, line, linesRead, navVars,
                   uiVars, fsVars>>

\* ----------------------------------------------------------------- browser

\* create_driver(): starting Firefox may fail.
CreateDriver ==
    /\ At("create_driver")
    /\ \/ driver' = "open" /\ Complete
       \/ Raise("WebDriverException") /\ UNCHANGED driver
    /\ UNCHANGED <<args, upd, calls, stderr, traceVars, srvVars, navVars, frame, polls, observed,
                   fsVars>>

\* open_browser(url) is entered: retries = 0.  The environment fixes how many
\* connections it refuses; driver.get(None) never succeeds.
OpenBrowserCall ==
    /\ At("open_browser")
    /\ retries' = 0
    /\ getCalls' = 0
    /\ nav' = "running"
    /\ refuseN' \in IF url = None THEN {MaxRefuse} ELSE 0..MaxRefuse
    /\ sub' = "loop"
    /\ UNCHANGED <<args, upd, calls, pc, status, error, done, stderr, traceVars, srvVars, uiVars,
                   fsVars>>

\* One iteration of the `while True` of open_browser, up to the raise, the
\* `continue` or the `break`.
NavAttempt ==
    /\ InLoop("open_browser")
    /\ retries' = retries + 1
    /\ IF TooManyRetries(retries + 1)
       THEN /\ stderr' = Append(stderr, "Too many retries loading")
            /\ Raise("CustomException: Too many retries")
            /\ nav' = "raised"
            /\ UNCHANGED <<getCalls, frame>>
       ELSE /\ getCalls' = getCalls + 1
            /\ UNCHANGED <<stderr, nav, pc, status, error, done>>
            /\ IF getCalls + 1 > refuseN
               THEN sub' = "break" /\ frame' = "top"
               ELSE UNCHANGED <<sub, frame>>
    /\ UNCHANGED <<args, upd, calls, traceVars, srvVars, refuseN, driver, polls, observed, fsVars>>

\* `break`: open_browser returns and its frame, with retries, is gone.
NavReturn ==
    /\ status = "running" /\ sub = "break"
    /\ nav' = "returned"
    /\ retries' = 0
    /\ getCalls' = 0
    /\ refuseN' = 0
    /\ Complete
    /\ UNCHANGED <<args, upd, calls, stderr, traceVars, srvVars, uiVars, fsVars>>

\* One poll of WebDriverWait(...).until(EC.text_to_be_present_in_element(...)):
\* the text can be there only in the document the selector belongs to.  A
\* missing element (NoSuchElementException) is ignored by the wait.
WaitTextPoll ==
    /\ At("wait_text")
    /\ \E found \in BOOLEAN :
         /\ found => frame = Cur.ctx
         /\ IF found
            THEN polls' = 0 /\ Complete
            ELSE polls < MaxPolls /\ polls' = polls + 1 /\ UNCHANGED ctlVars
    /\ UNCHANGED <<args, upd, calls, stderr, traceVars, srvVars, navVars, driver, frame, observed,
                   fsVars>>

\* One poll of WebDriverWait(...).until(script_succeeds(script, expected)).
WaitScriptPoll ==
    /\ At("wait_script")
    /\ \E r \in ScriptOutcomes(Cur.expect) :
         /\ observed' = r
         /\ IF ScriptSucceeds(r, Cur.expect)
            THEN polls' = 0 /\ Complete
            ELSE polls < MaxPolls /\ polls' = polls + 1 /\ UNCHANGED ctlVars
    /\ UNCHANGED <<args, upd, calls, stderr, traceVars, srvVars, navVars, driver, frame, fsVars>>

\* TIMEOUT seconds passed without the predicate becoming true.
WaitTimeout ==
    /\ At("wait_text") \/ At("wait_script")
    /\ polls >= 1
    /\ Raise("TimeoutException")
    /\ UNCHANGED <<args, upd, calls, stderr, traceVars, srvVars, navVars, uiVars, fsVars>>

\* The CSS selector a text wait polls or a direct find looks up.
Selector(name) ==
    CASE name \in {"wait_title_exit_c", "wait_title_file_c"} ->
             ".view.source > .viewTitle"
      [] name = "find_source_frame" -> "#main > .view.source iframe"
      [] name \in {"wait_monaco_exit", "wait_monaco_helper"} -> "#monaco-container"
      [] name = "find_search_input" -> "#searchInput"
      [] name \in {"wait_dropdown_helper", "wait_dropdown_notebook"} ->
             "#searchDropdown > *:nth-child(1)"
      [] name \in {"wait_execution", "find_item"} ->
             "#main > .execution > .contents > div"
      [] name = "find_first_note" ->
             "#main > .notebook > .contents > div > div.tentative"

TextWaits ==
    {"wait_title_exit_c", "wait_monaco_exit", "wait_dropdown_helper", "wait_execution",
     "wait_title_file_c", "wait_monaco_helper", "wait_dropdown_notebook"}

\* A completed wait has seen the element the statement looks up.  The UI
\* renders each element some time after the action that causes it and keeps
\* it from then on.
Established(name) ==
    \E w \in TextWaits \cap done : Selector(w) = Selector(name)

\* driver.find_element_by_css_selector(...), not inside a wait: one lookup,
\* NoSuchElementException when the element is not rendered at that moment.
FindElement ==
    /\ At("find")
    /\ \/ frame = Cur.ctx /\ Complete
       \/ ~Established(Cur.name) /\ Raise("NoSuchElementException")
    /\ UNCHANGED <<args, upd, calls, stderr, traceVars, srvVars, navVars, uiVars, fsVars>>

\* Forgetting to switch back: the active document stays what it was.
SwitchToWindowNoop(f) == f

\* The active document after driver.switch_to.window(main_window).
SwitchToWindow(f) == "top"

\* driver.switch_to.frame(source_frame)
SwitchFrame ==
    /\ At("switch_frame")
    /\ \/ frame' = "frame" /\ Complete
       \/ Raise("WebDriverException") /\ UNCHANGED frame
    /\ UNCHANGED <<args, upd, calls, stderr, traceVars, srvVars, navVars, driver, polls, observed,
                   fsVars>>

\* driver.switch_to.window(main_window)
SwitchWindow ==
    /\ At("switch_window")
    /\ frame' = SwitchToWindow(frame)
    /\ Complete
    /\ UNCHANGED <<args, upd, calls, stderr, traceVars, srvVars, navVars, driver, polls, observed,
                   fsVars>>

\* Keys, clicks, window_handles, driver.get("about:blank"): the browser does
\* it or reports an error.
UiAct ==
    /\ At("ui_act")
    /\ \/ Complete
       \/ Raise("WebDriverException")
    /\ UNCHANGED <<args, upd, calls, stderr, traceVars, srvVars, navVars, uiVars, fsVars>>

\* time.sleep(2)
Sleep ==
    /\ At("sleep")
    /\ Complete
    /\ UNCHANGED <<args, upd, calls, stderr, traceVars, srvVars, navVars, uiVars, fsVars>>

\* driver.quit()
Quit ==
    /\ At("quit")
    /\ driver' = "quit"
    /\ Complete
    /\ UNCHANGED <<args, upd, calls, stderr, traceVars, srvVars, navVars, frame, polls, observed,
                   fsVars>>

\* -------------------------------------------------------------- the checks

\* output = subprocess.check_output(['docker', 'ps', '-aq']).strip()
DockerPs ==
    /\ At("docker_ps")
    /\ \E exit \in {0, 1}, out \in DockerOutputs :
         /\ Called(exit)
         /\ IF CheckOutputRaises(exit)
            THEN Raise("CalledProcessError") /\ UNCHANGED output
            ELSE FallThrough(exit = 0) /\ output' = Strip(out)
    /\ UNCHANGED <<args, upd, stderr, traceVars, srvVars, navVars, uiVars, mounted, zip_files>>

\* if len(output) > 0: ... assert False
AssertDocker ==
    /\ At("assert_docker")
    /\ IF ContainersLeft(output)
       THEN /\ stderr' = Append(stderr, "Docker containers still running")
            /\ Raise("AssertionError")
       ELSE Complete /\ UNCHANGED stderr
    /\ UNCHANGED <<args, upd, calls, traceVars, srvVars, navVars, uiVars, fsVars>>

\* zip_files = subprocess.check_output(["unzip", "-Z1", ...]).splitlines()
Unzip ==
    /\ At("unzip")
    /\ \E exit \in {0, 1}, listing \in SUBSET ZipEntries :
         /\ Called(exit)
         /\ IF CheckOutputRaises(exit)
            THEN Raise("CalledProcessError") /\ UNCHANGED zip_files
            ELSE FallThrough(exit = 0) /\ zip_files' = listing
    /\ UNCHANGED <<args, upd, stderr, traceVars, srvVars, navVars, uiVars, mounted, output>>

\* assert "%s/pernosco-submit-test/out/message.h" % tmpdir in zip_files
AssertZip ==
    /\ At("assert_zip")
    /\ IF ExpectedSource \in zip_files THEN Complete ELSE Raise("AssertionError")
    /\ UNCHANGED <<args, upd, calls, stderr, traceVars, srvVars, navVars, uiVars, fsVars>>

\* print("\nPASS", file=sys.stderr); the script ends.
PrintPass ==
    /\ At("print_pass")
    /\ stderr' = Append(stderr, "PASS")
    /\ pc' = pc + 1
    /\ status' = "exited"
    /\ done' = done \cup {Cur.name}
    /\ UNCHANGED <<args, upd, calls, sub, error, traceVars, srvVars, navVars, uiVars, fsVars>>

Next ==
    \/ CheckCall \/ Mount \/ Umount \/ Record \/ Pull \/ SkipPull \/ MkdirStorage
    \/ Popen \/ ServerLine \/ StdoutEof \/ Kill \/ Wait
    \/ CreateDriver \/ OpenBrowserCall \/ NavAttempt \/ NavReturn
    \/ WaitTextPoll \/ WaitScriptPoll \/ WaitTimeout
    \/ FindElement \/ SwitchFrame \/ SwitchWindow \/ UiAct \/ Sleep \/ Quit
    \/ DockerPs \/ AssertDocker \/ Unzip \/ AssertZip \/ PrintPass

Spec == Init /\ [][Next]_vars

\* ------------------------------------------------------------------ claims

PassCount == Cardinality({i \in 1..Len(stderr) : stderr[i] = "PASS"})
PassPrinted == PassCount >= 1
Ended == status \in {"aborted", "exited"}

\* The stages C1 names, as the statements that make them up.
ProvisionStages == {"git_clone", "git_checkout", "mkdir_alias", "mount"}
BuildStages == {"build", "record", "build_check_trace"}
Scenario1Stages ==
    {"start_server_1", "create_driver", "open_browser_1", "wait_title_exit_c",
     "find_source_frame", "window_handles", "switch_frame_1", "wait_monaco_exit",
     "switch_window_1", "find_search_input", "focus_search_1", "type_helper_function",
     "wait_dropdown_helper", "return_1", "wait_execution", "find_item", "click_item",
     "wait_title_file_c", "switch_frame_2", "wait_monaco_helper", "switch_window_2"}
NotebookStages ==
    {"focus_search_2", "type_notebook", "wait_dropdown_notebook", "return_2",
     "find_first_note", "wait_focus", "click_first_note", "wait_textarea_empty",
     "type_hello_kitty", "wait_textarea_typed", "sleep", "get_about_blank"}
RestartStages ==
    {"kill_server_1", "wait_server_1", "start_server_2", "open_browser_2",
     "wait_persisted", "driver_quit", "kill_server_2", "wait_server_2"}
FinalStages ==
    {"docker_ps", "assert_no_containers", "build_copy_sources", "unzip_list",
     "assert_zip", "umount"}
AllStages ==
    ProvisionStages \cup BuildStages \cup Scenario1Stages \cup NotebookStages
        \cup RestartStages \cup FinalStages

\* C1: PASS is printed at most once, and only when every stage (clone and
\* checkout, bind mount, build, record, the pull unless --no-pull, build
\* --check-trace, both server starts and stops, the UI scenario, the notebook
\* write, the persistence check, the browser quit, the container check, build
\* --copy-sources, the archive assertion and the unmount) has completed
\* successfully.
C1_PassOnceAfterEveryStage ==
    /\ PassCount <= 1
    /\ PassPrinted =>
         /\ AllStages \subseteq done
         /\ ~args.no_pull => "pull" \in done
         /\ status = "exited"

C1_Witness == PassPrinted /\ ~args.no_pull /\ "pull" \in done

\* The token C2 speaks of: the last whitespace-delimited token of a line, or
\* None for a line without tokens.
LastToken(l) == LET words == Split(l) IN IF words = <<>> THEN None ELSE words[Len(words)]
ClaimedPrefix == <<"h", "t", "t", "p">>

\* C2: when start_server reads a line whose last token starts with http, url
\* becomes exactly that token and the loop stops there; reading any other
\* line, an empty or whitespace-only one included, does not fail and leaves
\* url unset.
C2_UrlIsFirstHttpToken ==
    [][(InLoop("start_server") /\ linesRead' = linesRead + 1) =>
          IF StartsWith(LastToken(line'), ClaimedPrefix)
          THEN /\ url' = LastToken(line')
               /\ status' = "running" /\ pc' = pc + 1 /\ sub' = "stmt"
          ELSE /\ status' = "running"
               /\ url' = None]_vars

\* C3: a server whose stdout closes without a URL line is a startup failure:
\* the run is never past start_server, still running, with url unset.
C3_NoUrlIsStartupFailure ==
    (status = "running" /\ server # 0 /\ Cur.op # "start_server") => url # None

\* C4: when the first N < 100 calls of driver.get(url) raise and call N + 1
\* succeeds, open_browser does not raise and reaches its return after exactly
\* N + 1 calls.
C4_NavigationSucceedsWithinBudget ==
    (nav \in {"running", "raised"} /\ refuseN < 100) =>
        /\ nav = "running"
        /\ status = "running"
        /\ getCalls <= refuseN + 1
        /\ sub = "break" => (getCalls = refuseN + 1 /\ retries = refuseN + 1)

C4_Witness == sub = "break" /\ refuseN = 99 /\ getCalls = 100 /\ status = "running"

\* C5: when every call of driver.get(url) raises, open_browser makes exactly
\* 100 calls, never a 101st, and then raises CustomException("Too many
\* retries"); the run ends there and PASS is not printed.
C5_TooManyRetriesAfterBudget ==
    /\ (nav \in {"running", "raised"} /\ getCalls <= refuseN) => getCalls <= 100
    /\ (nav \in {"running", "raised"} /\ refuseN >= 100) => sub # "break"
    /\ nav = "raised" =>
         /\ getCalls = 100
         /\ refuseN >= 100
         /\ status = "aborted"
         /\ error = "CustomException: Too many retries"
         /\ ~PassPrinted

C5_Witness == nav = "raised" /\ getCalls = 100 /\ url # None /\ Len(servers) = 2

\* C6: the second server is started with the storage directory and the trace
\* directory of the first, and PASS is printed only if the textarea value the
\* script returned after the restart is exactly HelloKitty.
C6_PersistenceRoundTrip ==
    /\ Len(servers) = 2 =>
         /\ servers[2].args.storage = servers[1].args.storage
         /\ servers[2].args.trace = servers[1].args.trace
         /\ servers[2].args.trace # None
    /\ ("wait_persisted" \in done \/ PassPrinted) =>
         /\ ~observed.err
         /\ observed.val = <<"str", "Hello", "Kitty">>

C6_Witness ==
    PassPrinted /\ Len(servers) = 2 /\ observed.val = <<"str", "Hello", "Kitty">>

\* C7, as claimed: PASS is printed only if the listing of sources.zip holds
\* message.h under the alias root, <tmpdir>/alias/pernosco-submit-test/out.
C7_AliasRootedPath ==
    PassPrinted =>
        (tmpdir \o <<"alias", "pernosco-submit-test", "out", "message.h">>) \in zip_files

\* C7, amended: the archive assertion passes, and PASS is printed, only if the
\* listing holds message.h under the work root,
\* <tmpdir>/pernosco-submit-test/out; the alias-rooted entry neither is needed
\* nor suffices.
C7_WorkRootedPath ==
    ("assert_zip" \in done \/ PassPrinted) =>
        (tmpdir \o <<"pernosco-submit-test", "out", "message.h">>) \in zip_files

C7_Witness ==
    /\ PassPrinted
    /\ (tmpdir \o <<"alias", "pernosco-submit-test", "out", "message.h">>) \notin zip_files

Alive == {i \in DOMAIN servers : servers[i].state = "running"}
\* Server i was stopped once, by SIGINT and then wait().
StoppedOnce(i) ==
    /\ servers[i].signals = <<"SIGINT">>
    /\ servers[i].waits = 1
    /\ servers[i].state = "exited"

\* C8: at most one server process is alive at any time; a server is waited
\* for only after it was sent SIGINT and nothing else; the second server is
\* started only when the first was stopped; when PASS is printed both servers
\* were stopped exactly once and none is alive.
C8_ServersStoppedBySigint ==
    /\ Cardinality(Alive) <= 1
    /\ \A i \in DOMAIN servers :
         /\ servers[i].waits <= 1
         /\ servers[i].waits = 1 => servers[i].signals = <<"SIGINT">>
    /\ Len(servers) = 2 => StoppedOnce(1)
    /\ PassPrinted =>
         /\ Len(servers) = 2
         /\ StoppedOnce(1) /\ StoppedOnce(2)
         /\ Alive = {}

C8_Witness == PassPrinted /\ Len(servers) = 2 /\ StoppedOnce(1) /\ StoppedOnce(2)

\* The aborts C9 names: a subprocess failure, a UI wait timeout, too many
\* navigation retries, a failed assertion.
AbortKinds ==
    {"CalledProcessError", "TimeoutException", "CustomException: Too many retries",
     "AssertionError"}

\* C9: when the run has aborted in one of these ways, every server that was
\* started has been sent the interrupt signal and waited for.
C9_ServerStoppedOnAbort ==
    (status = "aborted" /\ error \in AbortKinds) =>
        \A i \in DOMAIN servers :
            servers[i].signals # <<>> /\ servers[i].waits >= 1

\* C10: once the bind mount was made, the alias path is unmounted when the
\* process ends, with PASS or by an abort.
C10_UnmountedAtExit ==
    Ended => ~mounted


\* The statements after the container check.
AfterContainerCheck == {"build_copy_sources", "unzip_list", "assert_zip", "umount"}

\* C11: docker ps and the check of its output run only when both servers
\* were stopped and waited for; when the stripped output holds a container
\* id the run aborts at the check: build --copy-sources, the archive check
\* and the unmount are not run and PASS is not printed.
C11_ContainerLeakAborts ==
    /\ (pc <= NSteps /\ Cur.op \in {"docker_ps", "assert_docker"}) =>
         /\ Len(servers) = 2
         /\ \A i \in {1, 2} : servers[i].signals # <<>> /\ servers[i].waits = 1
                                /\ servers[i].state = "exited"
    /\ Len(output) > 0 =>
         /\ pc <= NSteps /\ Cur.name = "assert_no_containers"
         /\ AfterContainerCheck \cap done = {}
         /\ \A i \in 1..Len(calls) : calls[i].name \notin AfterContainerCheck
         /\ mounted
         /\ ~PassPrinted

C11_Witness ==
    /\ status = "aborted" /\ error = "AssertionError"
    /\ Cur.name = "assert_no_containers"
    /\ output = <<"c", "1">>


\* The lookups and waits whose selector belongs to the top-level document,
\* and those whose selector (#monaco-container) belongs to the source iframe.
TopLevelLookups ==
    {"wait_title_exit_c", "find_source_frame", "find_search_input",
     "wait_dropdown_helper", "wait_execution", "find_item", "wait_title_file_c",
     "wait_dropdown_notebook", "find_first_note", "wait_focus", "wait_textarea_empty",
     "wait_textarea_typed", "wait_persisted"}
FrameLookups == {"wait_monaco_exit", "wait_monaco_helper"}

\* C12: whenever the script is about to issue a top-level lookup or wait the
\* browser's active document is the top-level window, and whenever it is
\* about to issue an iframe selector the source iframe is active.
C12_FrameContextDiscipline ==
    (status = "running" /\ sub = "stmt" /\ pc <= NSteps) =>
        /\ Cur.name \in TopLevelLookups => frame = "top"
        /\ Cur.name \in FrameLookups => frame = "frame"

C12_Witness ==
    /\ status = "running" /\ sub = "stmt"
    /\ Cur.name = "find_search_input"
    /\ {"switch_frame_1", "wait_monaco_exit", "switch_window_1"} \subseteq done
    /\ frame = "top"


\* The statements that run before statement number n, the skipped pull left out.
StagesBefore(n) ==
    LET P == Program
    IN  {P[j].name : j \in 1..(n - 1)} \ (IF args.no_pull THEN {"pull"} ELSE {})

\* C13: a synchronous command (git clone/checkout, mkdir, mount, build.sh,
\* rr record, pernosco pull, pernosco build, docker ps, unzip, umount) that
\* exits non-zero is the last command the run executes: the run is aborted
\* at that statement with CalledProcessError, nothing after it has run, PASS
\* is not printed, and no command is ever run a second time.
C13_NonZeroExitIsFatal ==
    /\ \A i \in 1..Len(calls) :
         calls[i].exit # 0 =>
             /\ i = Len(calls)
             /\ status = "aborted" /\ error = "CalledProcessError"
             /\ Cur.name = calls[i].name
             /\ done = StagesBefore(pc)
             /\ ~PassPrinted
    /\ \A i, j \in 1..Len(calls) : i # j => calls[i].name # calls[j].name

C13_Witness ==
    /\ status = "aborted"
    /\ Len(calls) = 12
    /\ calls[12].name = "umount" /\ calls[12].exit = 1
    /\ calls[7].name = "pull"


\* ---------------------------------------------------------------------
\* record() and build() called any number of times, in any order, by a
\* caller that survives a failed call: the functions of lines 55-63 on
\* their own, from the state in which the script defines them.

MaxHarnessCalls == 4

\* record(), lines 58-63.
RecordCall ==
    /\ Len(calls) < MaxHarnessCalls
    /\ \E exit \in {0, 1} :
         /\ calls' = Append(calls,
                [name |-> "record", argv |-> CommandLine("record"), exit |-> exit])
         /\ RecordBody(exit)
    /\ UNCHANGED <<args, upd, ctlVars, stderr, srvVars, navVars, uiVars, fsVars>>

\* build(), lines 55-56.
BuildCall ==
    /\ Len(calls) < MaxHarnessCalls
    /\ \E exit \in {0, 1} :
         calls' = Append(calls,
                [name |-> "build", argv |-> CommandLine("build"), exit |-> exit])
    /\ UNCHANGED <<args, upd, ctlVars, stderr, traceVars, srvVars, navVars, uiVars, fsVars>>

NextRecord == RecordCall \/ BuildCall

SpecRecord == Init /\ [][NextRecord]_vars

\* The calls of record() so far whose tracer exited with status zero.
RecordedOk == {i \in 1..Len(calls) : calls[i].name = "record" /\ calls[i].exit = 0}

\* C14: after k successful calls of record(), next_trace_id = k and, for
\* k >= 1, trace_dir = <tmpdir>/main-(k-1); before the first one trace_dir
\* is None.  Failed record() calls and build() calls do not count, so they
\* leave both variables as they were.
C14_TraceHandleAllocation ==
    LET k == Cardinality(RecordedOk) IN
    /\ next_trace_id = k
    /\ trace_dir = IF k = 0 THEN None ELSE tmpdir \o <<"main-" \o ToString(k - 1)>>

C14_Witness ==
    /\ Len(calls) = 4
    /\ calls[1].name = "record" /\ calls[1].exit = 0
    /\ calls[2].name = "record" /\ calls[2].exit = 1
    /\ calls[3].name = "build"
    /\ calls[4].name = "record" /\ calls[4].exit = 0
    /\ next_trace_id = 2


Has(seq, x) == \E i \in 1..Len(seq) : seq[i] = x

\* The command lines built from pernosco_cmd that have been run so far.
PernoscoInvocations ==
    {calls[i].argv : i \in {j \in 1..Len(calls) :
                              calls[j].name \in {"build_check_trace", "build_copy_sources"}}}
        \cup {servers[i].args.cmd : i \in 1..Len(servers)}

StepIndex(name) ==
    LET P == Program
    IN  CHOOSE i \in 1..Len(P) : P[i].name = name

PullIndex == StepIndex("pull")

\* C15: the statements a run has completed are always exactly those before
\* the current one in the fixed sequence, the commands run so far were run
\* in the order of that sequence and none twice, the pull is the only
\* statement ever skipped and it is skipped exactly when --no-pull was
\* given, and then every command line built from pernosco_cmd carries
\* --no-pull (and none does otherwise).
C15_LinearPrefix ==
    LET P == Program
        Idx(name) == CHOOSE i \in 1..Len(P) : P[i].name = name
    IN
    /\ done = {P[j].name : j \in 1..(pc - 1)} \ (IF args.no_pull THEN {"pull"} ELSE {})
    /\ \A i \in 1..Len(calls) :
         /\ Idx(calls[i].name) <= pc
         /\ i > 1 => Idx(calls[i - 1].name) < Idx(calls[i].name)
    /\ Len(servers) <= 2
    /\ (\E i \in 1..Len(calls) : calls[i].name = "pull") => ~args.no_pull
    /\ (pc > PullIndex /\ ~args.no_pull) =>
           \E i \in 1..Len(calls) : calls[i].name = "pull" /\ calls[i].exit = 0
    /\ \A c \in PernoscoInvocations : Has(c, "--no-pull") <=> args.no_pull

C15_Witness ==
    /\ args.no_pull
    /\ PassPrinted
    /\ Len(servers) = 2
    /\ "pull" \notin done
    /\ \A c \in PernoscoInvocations : Has(c, "--no-pull")


DirectFinds == {"find_source_frame", "find_search_input", "find_item", "find_first_note"}

\* C16: when the run is at a direct find, a completed wait has established
\* the element it looks up, and the run never aborts with an
\* element-not-found error.
C16_FindsAreSynchronized ==
    /\ (At("find") \/ (status = "aborted" /\ Cur.op = "find")) => Established(Cur.name)
    /\ error # "NoSuchElementException"


\* C17: at a script-value wait, a poll ends the wait (the run moves to the
\* next statement) exactly when the script ran without error and returned
\* the expected value; a poll whose script raised leaves the run at the
\* wait, still running, with one more poll counted; the only way the wait
\* fails is the timeout, which aborts the run with TimeoutException and
\* without PASS.
C17_ScriptWaitSemantics ==
    [][ At("wait_script") =>
          IF status' = "aborted"
          THEN error' = "TimeoutException" /\ pc' = pc /\ ~PassPrinted'
          ELSE /\ status' = "running"
               /\ (pc' = pc + 1) <=> (~observed'.err /\ observed'.val = Cur.expect)
               /\ pc' # pc + 1 => pc' = pc /\ polls' = polls + 1
      ]_vars

C17_Witness ==
    /\ At("wait_script")
    /\ Cur.name = "wait_textarea_typed"
    /\ polls = 1
    /\ observed.err


\* What the instance started last has announced: the last token of the
\* line read last from its stdout when that token starts with http:, None
\* when no line was read yet or the last one read carries no such token.
Announced ==
    IF line # None /\ LastToken(line) # None /\ StartsWith(LastToken(line), HttpPrefix)
    THEN LastToken(line)
    ELSE None

\* C18: from the moment a server instance is started, url is what that
\* instance has announced, or None; in particular after the restart the
\* browser is given the second instance's URL or None, never the first's.
C18_UrlNeverStale ==
    IF Len(servers) = 0 THEN url = None ELSE url = Announced

C18_Witness ==
    /\ At("open_browser")
    /\ Cur.name = "open_browser_2"
    /\ Len(servers) = 2
    /\ line = None
    /\ url = None


\* ---------------------------------------------------------------------
\* .update.py: the revision bump, the smoke test, the changelog and the
\* commit.  Its whole state is the record upd; tests/main.py runs as a child
\* process of which only the exit status is seen.

MaxLogLines == 3

Newline == <<"\n">>

\* str.splitlines() on text whose only line boundary is "\n".
RECURSIVE SplitLinesFrom(_, _, _, _)
SplitLinesFrom(s, i, cur, acc) ==
    IF i > Len(s)
    THEN IF cur = <<>> THEN acc ELSE Append(acc, cur)
    ELSE IF s[i] = "\n"
         THEN SplitLinesFrom(s, i + 1, <<>>, Append(acc, cur))
         ELSE SplitLinesFrom(s, i + 1, Append(cur, s[i]), acc)

SplitLines(s) == SplitLinesFrom(s, 1, <<>>, <<>>)

\* What git prints for a sequence of lines: each followed by its newline.
RECURSIVE JoinLines(_)
JoinLines(ls) == IF ls = <<>> THEN <<>> ELSE Head(ls) \o Newline \o JoinLines(Tail(ls))

\* The first index at which old occurs in s, 0 if it does not.
Find(s, old) ==
    LET hits == {i \in 1..(Len(s) - Len(old) + 1) : SubSeq(s, i, i + Len(old) - 1) = old}
    IN  IF hits = {} THEN 0 ELSE CHOOSE i \in hits : \A j \in hits : i <= j

\* str.replace(old, new) without the count: every occurrence is replaced.
RECURSIVE ReplaceAll(_, _, _)
ReplaceAll(s, old, new) ==
    LET i == Find(s, old)
    IN  IF i = 0 THEN s
        ELSE SubSeq(s, 1, i - 1) \o new
                 \o ReplaceAll(SubSeq(s, i + Len(old), Len(s)), old, new)

\* str.replace(old, new, 1): the first occurrence only.
ReplaceFirst(s, old, new) ==
    LET i == Find(s, old)
    IN  IF i = 0 THEN s
        ELSE SubSeq(s, 1, i - 1) \o new \o SubSeq(s, i + Len(old), Len(s))

ChangelogTag == <<"C", "h", "a", "n", "g", "e", "l", "o", "g", ":">>
Dash == <<"-">>

\* Lines git log may print.
LogEmpty == <<>>
LogSpaces == <<" ", "\t">>
LogBody == <<" ", " ", "f", "i", "x">>
LogTagged == <<" ", " ">> \o ChangelogTag \o <<" ", "a">>
LogTaggedTwice == ChangelogTag \o ChangelogTag \o <<"b">>
LogTagInside == <<"x">> \o ChangelogTag
LogLines == {LogEmpty, LogSpaces, LogBody, LogTagged, LogTaggedTwice, LogTagInside}

LogInputs == UNION {[1..n -> LogLines] : n \in 0..MaxLogLines}

\* Revisions: what git rev-parse HEAD names and what metadata.json holds.
RevA == <<"a", "1">>
RevB == <<"b", "2">>
Revs == {RevA, RevB}

Metadata(rev) == [db_builder_revision |-> rev, appserver_revision |-> rev]


\* The state when .update.py starts: tests/main.py has not been started
\* (line 36 gives it --headless only), HEAD names some revision and
\* metadata.json holds some revision.
InitUpdate ==
    /\ InitMain
    /\ ~args.no_pull
    /\ \E h \in Revs, m \in Revs :
         upd = [pc |-> "rev_parse", status |-> "running", error |-> "none",
                head |-> h, file |-> Metadata(m),
                new_rev |-> None, old_rev |-> None, test_exit |-> -1,
                log_output |-> <<>>, lines |-> <<>>, i |-> 0,
                changelog |-> <<>>, accumulating |-> FALSE,
                message |-> [title |-> "", body |-> <<>>], committed |-> FALSE]

UpdAt(p) == upd.status = "running" /\ upd.pc = p
UpdRaise(e) == upd' = [upd EXCEPT !.status = "aborted", !.error = e]
MainUnchanged ==
    UNCHANGED <<args, ctlVars, stderr, traceVars, srvVars, navVars, uiVars, fsVars, calls>>

\* new_rev = subprocess.check_output(["git", "rev-parse", "HEAD"], ...).rstrip()
RevParse ==
    /\ UpdAt("rev_parse")
    /\ \E exit \in {0, 1} :
         IF CheckOutputRaises(exit)
         THEN UpdRaise("CalledProcessError")
         ELSE upd' = [upd EXCEPT !.new_rev = RStrip(upd.head \o Newline),
                                 !.pc = "read_metadata"]
    /\ MainUnchanged

\* old_rev = json.load(f)['db_builder_revision']
ReadMetadata ==
    /\ UpdAt("read_metadata")
    /\ upd' = [upd EXCEPT !.old_rev = upd.file.db_builder_revision,
                          !.pc = "write_metadata"]
    /\ MainUnchanged

\* json.dump({'db_builder_revision': new_rev, 'appserver_revision': new_rev}, f)
WriteMetadata ==
    /\ UpdAt("write_metadata")
    /\ upd' = [upd EXCEPT !.file = Metadata(upd.new_rev), !.pc = "run_test"]
    /\ MainUnchanged

\* subprocess.check_call(["./tests/main.py", "--headless"])
RunTest ==
    /\ UpdAt("run_test")
    /\ \E exit \in {0, 1} :
         IF CheckCallRaises(exit)
         THEN upd' = [upd EXCEPT !.test_exit = exit, !.status = "aborted",
                                 !.error = "CalledProcessError"]
         ELSE upd' = [upd EXCEPT !.test_exit = exit, !.pc = "git_log"]
    /\ MainUnchanged

\* git log old_rev..new_rev through Popen and communicate(): the exit status
\* is not looked at.  Then changelog = [], accumulating = False and the
\* lines of the output are what the loop goes over.
GitLog ==
    /\ UpdAt("git_log")
    /\ \E ls \in LogInputs :
         LET out == JoinLines(ls) IN
         upd' = [upd EXCEPT !.log_output = out, !.lines = SplitLines(out), !.i = 1,
                            !.changelog = <<>>, !.accumulating = FALSE,
                            !.pc = "loop"]
    /\ MainUnchanged

\* One iteration of `for line in log_output.splitlines()`.
ChangelogStep ==
    /\ UpdAt("loop")
    /\ upd.i <= Len(upd.lines)
    /\ LET l == Strip(upd.lines[upd.i]) IN
       IF l = <<>>
       THEN upd' = [upd EXCEPT !.accumulating = FALSE, !.i = @ + 1]
       ELSE IF upd.accumulating
       THEN upd' = [upd EXCEPT !.changelog = Append(@, l), !.i = @ + 1]
       ELSE IF StartsWith(l, ChangelogTag)
       THEN upd' = [upd EXCEPT !.accumulating = TRUE,
                               !.changelog = Append(@, ReplaceFirst(l, ChangelogTag, Dash)),
                               !.i = @ + 1]
       ELSE upd' = [upd EXCEPT !.i = @ + 1]
    /\ MainUnchanged

\* The loop is over: the commit message is the title, an empty line and the
\* changelog lines in order.
WriteMessage ==
    /\ UpdAt("loop")
    /\ upd.i > Len(upd.lines)
    /\ upd' = [upd EXCEPT !.message = [title |-> "Update to new container version.\n",
                                       body |-> upd.changelog],
                          !.pc = "commit"]
    /\ MainUnchanged


\* subprocess.check_call(["git", "commit", "--edit", "--file", ..., "--", "metadata.json"])
Commit ==
    /\ UpdAt("commit")
    /\ \E exit \in {0, 1} :
         IF CheckCallRaises(exit)
         THEN UpdRaise("CalledProcessError")
         ELSE upd' = [upd EXCEPT !.committed = TRUE, !.status = "exited"]
    /\ MainUnchanged

NextUpdate ==
    \/ RevParse
    \/ ReadMetadata
    \/ WriteMetadata
    \/ RunTest
    \/ GitLog
    \/ ChangelogStep
    \/ WriteMessage
    \/ Commit

SpecUpdate == InitUpdate /\ [][NextUpdate]_vars

\* C19: from the moment the smoke test is started metadata.json holds the
\* new revision in both fields; every step after the test, the commit
\* included, is reached only when the test exited with status zero; when it
\* did not, the script is aborted at that statement, nothing is committed
\* and metadata.json still holds the new revision, not the old one.
C19_TestGatesCommit ==
    /\ upd.pc \in {"run_test", "git_log", "loop", "commit"} =>
           upd.file = Metadata(upd.new_rev) /\ upd.new_rev = upd.head
    /\ (upd.pc \in {"git_log", "loop", "commit"} \/ upd.committed) => upd.test_exit = 0
    /\ upd.test_exit \notin {-1, 0} =>
           /\ upd.status = "aborted" /\ upd.pc = "run_test"
           /\ ~upd.committed
           /\ upd.file.db_builder_revision = upd.new_rev

C19_Witness ==
    /\ upd.status = "aborted"
    /\ upd.pc = "run_test"
    /\ upd.test_exit = 1
    /\ upd.old_rev = RevA
    /\ upd.file = Metadata(RevB)


\* The stripped lines of the log.
Stripped == [k \in 1..Len(upd.lines) |-> Strip(upd.lines[k])]

\* Line k follows a line starting with the tag with no empty line in between.
Following(k) ==
    \E j \in 1..(k - 1) :
        /\ StartsWith(Stripped[j], ChangelogTag)
        /\ \A m \in j..(k - 1) : Stripped[m] # <<>>

\* What line k contributes to the changelog: nothing, itself, or itself with
\* the leading tag replaced by a dash.
Contribution(k) ==
    LET l == Stripped[k] IN
    IF l = <<>> THEN <<>>
    ELSE IF Following(k) THEN <<l>>
    ELSE IF StartsWith(l, ChangelogTag)
         THEN <<Dash \o SubSeq(l, Len(ChangelogTag) + 1, Len(l))>>
         ELSE <<>>

RECURSIVE ContributionsUpTo(_)
ContributionsUpTo(n) ==
    IF n = 0 THEN <<>> ELSE ContributionsUpTo(n - 1) \o Contribution(n)

\* C20: after any number of iterations of the loop the changelog holds, in
\* input order, exactly the contributions of the lines gone over so far, and
\* accumulating says whether the next line follows a tagged line with no
\* empty line in between; the commit message carries the final changelog.
C20_ChangelogExtraction ==
    upd.pc \in {"loop", "commit"} =>
        /\ upd.changelog = ContributionsUpTo(upd.i - 1)
        /\ upd.accumulating <=>
               (upd.i > 1 /\ Stripped[upd.i - 1] # <<>>
                   /\ (Following(upd.i - 1) \/ StartsWith(Stripped[upd.i - 1], ChangelogTag)))
        /\ upd.pc = "commit" =>
               upd.i = Len(upd.lines) + 1 /\ upd.message.body = upd.changelog

C20_Witness ==
    /\ upd.pc = "commit"
    /\ upd.lines = <<LogTaggedTwice, LogTaggedTwice, LogSpaces>>
    /\ upd.changelog = << Dash \o ChangelogTag \o <<"b">>, LogTaggedTwice >>
    /\ ~upd.accumulating

====
